---- MODULE Spec2Model ----
(***************************************************************************)
(* A model of onelint's core (package one): language.go, the mapping from  *)
(* a file path to a Language and a grammar and the parse pipeline          *)
(* (Parse, ParseFile), and analyze.go, the rule registry and dispatcher    *)
(* (FromFile, NewAnalyzer, AddRule, Analyze, OnEnterNode, OnLeaveNode,     *)
(* Report).  The tree-sitter engine, the file system, MakeScopeTree and    *)
(* WalkTree are collaborators whose code is not in these two files.        *)
(***************************************************************************)
EXTENDS Integers, Sequences, FiniteSets, TLC

VARIABLES
    pc,         \* where the host is: "start", "failed", "idle", "walk", "done"
    pf,         \* the ParseFile call made: its arguments and what it returned
    ff,         \* what FromFile returned
    ana,        \* the Analyzer (None before construction)
    cur,        \* WalkTree: the node the walk is at
    phase,      \* WalkTree: "enter", "leave" or "done" at cur
    returned,   \* what the last Analyze() returned
    calls,      \* number of calls the host has made on the Analyzer
    hist,       \* history: the events of the current walk (nodes visited, callbacks
                \* invoked and the Report and AddRule calls they made), every Report
                \* call and every registration since construction
    atStart,    \* history: the rule list and issue count when Analyze() was called
    first,      \* what Analyze() returned on the first Analyzer, once the host has
                \* built a second one for the same ParseResult and rules
    direct,     \* the call the host made of Grammar() or Parse() itself
    path,       \* SpecLang: the path given to LanguageFromFilePath
    lang        \* SpecLang: what LanguageFromFilePath returned

vars == <<pc, pf, ff, ana, cur, phase, returned, calls, hist, atStart, first, direct, path, lang>>

\* The nil of a string-like value (a grammar handle, a callback) and the
\* nil of a structured one (a result, an error, an Analyzer).
Nil == "nil"
None == [none |-> TRUE]
NoLang == -1

-----------------------------------------------------------------------------
(* Bounds of the model.                                                    *)

MaxNodes == 3       \* nodes of a syntax tree
MaxRules == 2       \* registrations an Analyzer holds
MaxCalls == 2       \* AddRule, Report and Analyze calls the host makes on one Analyzer
MaxPathLen == 5     \* characters of a path (SpecLang)

-----------------------------------------------------------------------------
(* language.go: Language, Grammar, LanguageFromFilePath.                   *)

LangUnknown == 0
LangPy == 1
LangJs == 2
LangTs == 3
LangTsx == 4

Languages == {LangUnknown, LangPy, LangJs, LangTs, LangTsx}

\* Language is an int: the values a caller can hold, the five tags and one
\* value beyond the enumeration on either side.
LanguageValues == Languages \cup {LangUnknown - 1, LangTsx + 1}

\* The grammar handles of the three tree-sitter packages language.go imports.
treeSitterPy == "python"
treeSitterTsx == "tsx"
treeSitterTs == "typescript"

\* Mutant: TypeScript is parsed with the TypeScript+JSX grammar.
GrammarTsAsTsx(l) ==
    CASE l = LangPy -> treeSitterPy
      [] l = LangJs -> treeSitterTsx
      [] l = LangTs -> treeSitterTsx
      [] l = LangTsx -> treeSitterTsx
      [] OTHER -> Nil

Grammar(l) ==
    CASE l = LangPy -> treeSitterPy
      [] l = LangJs -> treeSitterTsx
      [] l = LangTs -> treeSitterTs
      [] l = LangTsx -> treeSitterTsx
      [] OTHER -> Nil

\* A path is a sequence of characters.  filepath.Ext: the suffix beginning at
\* the final dot of the final element of the path, empty when there is none.
RECURSIVE ExtFrom(_, _)
ExtFrom(p, i) ==
    IF i < 1 \/ p[i] = "/" THEN <<>>
    ELSE IF p[i] = "." THEN SubSeq(p, i, Len(p))
    ELSE ExtFrom(p, i - 1)

Ext(p) == ExtFrom(p, Len(p))

\* Mutant: the ".jsx" case is missing.
LanguageFromFilePathNoJsx(p) ==
    LET ext == Ext(p) IN
    CASE ext = <<".", "p", "y">> -> LangPy
      [] ext = <<".", "j", "s">> -> LangJs
      [] ext = <<".", "t", "s">> -> LangTs
      [] ext = <<".", "t", "s", "x">> -> LangTsx
      [] OTHER -> LangUnknown

LanguageFromFilePath(p) ==
    LET ext == Ext(p) IN
    CASE ext = <<".", "p", "y">> -> LangPy
      [] ext = <<".", "j", "s">> \/ ext = <<".", "j", "s", "x">> -> LangJs
      [] ext = <<".", "t", "s">> -> LangTs
      [] ext = <<".", "t", "s", "x">> -> LangTsx
      [] OTHER -> LangUnknown

-----------------------------------------------------------------------------
(* Syntax trees.  Nodes are numbered 1..n in source (pre-order) position,  *)
(* node 1 is the root, parent[i] < i, and every node has a type string.    *)

NodeTypes == {"X", "Y"}

RECURSIVE Ancestors(_, _)
Ancestors(parent, i) ==
    IF parent[i] = 0 THEN {} ELSE {parent[i]} \cup Ancestors(parent, parent[i])

ParentVectors(n) ==
    { p \in [1..n -> 0..(n - 1)] :
        /\ p[1] = 0
        /\ \A i \in 2..n : p[i] \in 1..(i - 1)
        /\ \A i \in 3..n : p[i] \in ({i - 1} \cup Ancestors(p, i - 1)) }

\* A source text, as the engine sees it: the tree it parses to.
Sources ==
    UNION { { [parent |-> p, typ |-> t] : p \in ParentVectors(n), t \in [1..n -> NodeTypes] }
            : n \in 1..MaxNodes }

NodesOf(ast) == DOMAIN ast.typ

ChildrenOf(ast, n) == { m \in NodesOf(ast) : ast.parent[m] = n }

Min(S) == CHOOSE x \in S : \A y \in S : x <= y

LaterSiblings(ast, n) ==
    { m \in NodesOf(ast) : m > n /\ ast.parent[m] = ast.parent[n] }

-----------------------------------------------------------------------------
(* Rules.  A rule declares a node type and optionally an on-enter and an   *)
(* on-leave callback; a callback is named by what it does when invoked.    *)

R1 == [name |-> "R1", nodeType |-> "Y", onEnter |-> Nil, onLeave |-> "readd"]
R2 == [name |-> "R2", nodeType |-> "X", onEnter |-> "report", onLeave |-> "report"]
R3 == [name |-> "R3", nodeType |-> "X", onEnter |-> "add", onLeave |-> Nil]
R4 == [name |-> "R4", nodeType |-> "Y", onEnter |-> Nil, onLeave |-> Nil]

RulePool == {R1, R2, R3, R4}

\* The rule the "add" callback registers with ana.AddRule while it runs (as
\* long as the Analyzer holds fewer than MaxRules registrations).  The
\* "readd" callback reports and then registers its own rule once more.
AddedRule == R2

RuleLists == UNION { [1..n -> RulePool] : n \in 0..MaxRules }

NodeType(rule) == rule.nodeType
OnEnter(rule) == rule.onEnter
OnLeave(rule) == rule.onLeave

-----------------------------------------------------------------------------
(* language.go: Parse and ParseFile.  The environment of one call is what  *)
(* the collaborators answer: content is what os.ReadFile yields for the    *)
(* path when readOk (else the read fails), engineOk whether sitter.ParseCtx *)
(* succeeds.                                                               *)
(* ext lists the collaborators called, in call order.                      *)

Envs == [readOk : BOOLEAN, content : Sources, engineOk : BOOLEAN]

\* os.ReadFile: the file's bytes, or an error.
ReadFile(filePath, env) ==
    IF env.readOk
    THEN [source |-> env.content, err |-> None]
    ELSE [source |-> None, err |-> [kind |-> "read error", path |-> filePath]]

\* sitter.ParseCtx: the tree of a source, or an error.
ParseCtx(source, grammar, env) ==
    IF env.engineOk /\ grammar # Nil
    THEN [ast |-> source, err |-> None]
    ELSE [ast |-> None, err |-> [kind |-> "parse error"]]

\* The languages MakeScopeTree builds a scope tree for; for the others it
\* answers nil.
ScopedLanguages == {LangJs, LangTs, LangTsx}

MakeScopeTree(language, ast, source) ==
    IF language \in ScopedLanguages THEN [language |-> language, root |-> 1] ELSE None

\* Mutant: the error of the engine is returned beside a result built anyway.
ParsePartial(filePath, source, language, grammar, env) ==
    LET p == ParseCtx(source, grammar, env)
        scopeTree == MakeScopeTree(language, p.ast, source)
        parseResult == [Ast |-> p.ast,
                        Source |-> source,
                        FilePath |-> filePath,
                        TsLanguage |-> grammar,
                        Language |-> language,
                        ScopeTree |-> scopeTree]
    IN [res |-> parseResult,
        err |-> IF p.err # None THEN [kind |-> "failed to parse", path |-> filePath] ELSE None,
        ext |-> <<"ParseCtx", "MakeScopeTree">>]

\* Mutant: the Language field of the result is never set.
ParseDropsLanguage(filePath, source, language, grammar, env) ==
    LET p == ParseCtx(source, grammar, env) IN
    IF p.err # None
    THEN [res |-> None,
          err |-> [kind |-> "failed to parse", path |-> filePath],
          ext |-> <<"ParseCtx">>]
    ELSE LET scopeTree == MakeScopeTree(language, p.ast, source)
             parseResult == [Ast |-> p.ast,
                             Source |-> source,
                             FilePath |-> filePath,
                             TsLanguage |-> grammar,
                             Language |-> LangUnknown,
                             ScopeTree |-> scopeTree]
         IN [res |-> parseResult, err |-> None, ext |-> <<"ParseCtx", "MakeScopeTree">>]

Parse(filePath, source, language, grammar, env) ==
    LET p == ParseCtx(source, grammar, env) IN
    IF p.err # None
    THEN [res |-> None,
          err |-> [kind |-> "failed to parse", path |-> filePath],
          ext |-> <<"ParseCtx">>]
    ELSE LET scopeTree == MakeScopeTree(language, p.ast, source)
             parseResult == [Ast |-> p.ast,
                             Source |-> source,
                             FilePath |-> filePath,
                             TsLanguage |-> grammar,
                             Language |-> language,
                             ScopeTree |-> scopeTree]
         IN [res |-> parseResult, err |-> None, ext |-> <<"ParseCtx", "MakeScopeTree">>]

\* Mutant: the file is read before the grammar is looked up.
ParseFileReadFirst(filePath, env) ==
    LET l == LanguageFromFilePath(filePath)
        grammar == Grammar(l)
        f == ReadFile(filePath, env)
    IN IF f.err # None
       THEN [res |-> None, err |-> f.err, ext |-> <<"ReadFile">>]
       ELSE IF grammar = Nil
       THEN [res |-> None,
             err |-> [kind |-> "unsupported file type", path |-> filePath],
             ext |-> <<"ReadFile">>]
       ELSE LET r == Parse(filePath, f.source, l, grammar, env)
            IN [r EXCEPT !.ext = <<"ReadFile">> \o @]

ParseFile(filePath, env) ==
    LET l == LanguageFromFilePath(filePath)
        grammar == Grammar(l)
    IN IF grammar = Nil
       THEN [res |-> None,
             err |-> [kind |-> "unsupported file type", path |-> filePath],
             ext |-> <<>>]
       ELSE LET f == ReadFile(filePath, env) IN
            IF f.err # None
            THEN [res |-> None, err |-> f.err, ext |-> <<"ReadFile">>]
            ELSE LET r == Parse(filePath, f.source, l, grammar, env)
                 IN [r EXCEPT !.ext = <<"ReadFile">> \o @]

-----------------------------------------------------------------------------
(* analyze.go: the Analyzer.                                               *)

Range(s) == { s[i] : i \in DOMAIN s }

\* Mutant: an issue already in the list is not added again.
ReportDedup(a, issue) ==
    IF issue \in Range(a.issuesRaised) THEN a
    ELSE [a EXCEPT !.issuesRaised = Append(@, issue)]

Report(a, issue) == [a EXCEPT !.issuesRaised = Append(@, issue)]

\* Mutant: a rule that is already registered is not registered again.
AddRuleDedup(a, rule) ==
    LET typ == NodeType(rule)
        a1 == [a EXCEPT !.rules = Append(@, rule)]
        a2 == IF OnEnter(rule) # Nil
              THEN [a1 EXCEPT !.entryRulesForNode[typ] = Append(@, rule)]
              ELSE a1
    IN IF rule \in Range(a.rules) THEN a
       ELSE IF OnLeave(rule) # Nil
       THEN [a2 EXCEPT !.exitRulesForNode[typ] = Append(@, rule)]
       ELSE a2

\* Mutant: a rule is indexed for both phases without looking at its callbacks.
AddRuleUnconditional(a, rule) ==
    LET typ == NodeType(rule)
    IN [a EXCEPT !.rules = Append(@, rule),
                 !.entryRulesForNode[typ] = Append(@, rule),
                 !.exitRulesForNode[typ] = Append(@, rule)]

\* Mutant: a rule is put at the front of its buckets.
AddRulePrepend(a, rule) ==
    LET typ == NodeType(rule)
        a1 == [a EXCEPT !.rules = Append(@, rule)]
        a2 == IF OnEnter(rule) # Nil
              THEN [a1 EXCEPT !.entryRulesForNode[typ] = <<rule>> \o @]
              ELSE a1
    IN IF OnLeave(rule) # Nil
       THEN [a2 EXCEPT !.exitRulesForNode[typ] = <<rule>> \o @]
       ELSE a2

\* Mutant: the second test is an else-branch of the first.
AddRuleElseIf(a, rule) ==
    LET typ == NodeType(rule)
        a1 == [a EXCEPT !.rules = Append(@, rule)]
    IN IF OnEnter(rule) # Nil
       THEN [a1 EXCEPT !.entryRulesForNode[typ] = Append(@, rule)]
       ELSE IF OnLeave(rule) # Nil
       THEN [a1 EXCEPT !.exitRulesForNode[typ] = Append(@, rule)]
       ELSE a1

AddRule(a, rule) ==
    LET typ == NodeType(rule)
        a1 == [a EXCEPT !.rules = Append(@, rule)]
        a2 == IF OnEnter(rule) # Nil
              THEN [a1 EXCEPT !.entryRulesForNode[typ] = Append(@, rule)]
              ELSE a1
    IN IF OnLeave(rule) # Nil
       THEN [a2 EXCEPT !.exitRulesForNode[typ] = Append(@, rule)]
       ELSE a2

RECURSIVE AddRules(_, _, _)
AddRules(a, rules, i) ==
    IF i > Len(rules) THEN a ELSE AddRules(AddRule(a, rules[i]), rules, i + 1)

\* Mutant: the issue list is one list shared by all Analyzers, so a new
\* Analyzer starts with what the one before it has raised.
NewAnalyzerShared(file, rules) ==
    AddRules([Language |-> file.Language,
              ParseResult |-> file,
              rules |-> <<>>,
              entryRulesForNode |-> [t \in NodeTypes |-> <<>>],
              exitRulesForNode |-> [t \in NodeTypes |-> <<>>],
              issuesRaised |-> IF ana = None THEN <<>> ELSE ana.issuesRaised],
             rules, 1)

\* A Go map without a key reads as the nil slice: a bucket is <<>> until a
\* rule is appended to it.
NewAnalyzer(file, rules) ==
    AddRules([Language |-> file.Language,
              ParseResult |-> file,
              rules |-> <<>>,
              entryRulesForNode |-> [t \in NodeTypes |-> <<>>],
              exitRulesForNode |-> [t \in NodeTypes |-> <<>>],
              issuesRaised |-> <<>>],
             rules, 1)

\* Mutant: the error of ParseFile is dropped.
FromFileSwallow(filePath, baseRules, env) ==
    LET r == ParseFile(filePath, env) IN
    IF r.err # None
    THEN [ana |-> None, err |-> None]
    ELSE [ana |-> NewAnalyzer(r.res, baseRules), err |-> None]

FromFile(filePath, baseRules, env) ==
    LET r == ParseFile(filePath, env) IN
    IF r.err # None
    THEN [ana |-> None, err |-> r.err]
    ELSE [ana |-> NewAnalyzer(r.res, baseRules), err |-> None]

\* The issue a reporting callback of `rule` raises at `node`.
IssueOf(rule, cb, node) ==
    [Message |-> <<rule.name, cb>>, Range |-> <<node, node>>, Node |-> node]

HostIssue == [Message |-> <<"host", "Report">>, Range |-> <<0, 0>>, Node |-> 0]

\* (*visitFn)(rule, ana, node): what a callback does with the Analyzer it is
\* handed.  st pairs the Analyzer with the history of calls made so far.
Invoke(st, rule, cb, visitFn, node) ==
    LET called == [st EXCEPT !.hist.events =
                       Append(@, [kind |-> "call", rule |-> rule, cb |-> cb, node |-> node])]
        reported ==
            IF visitFn \in {"report", "readd"}
            THEN [called EXCEPT !.ana = Report(@, IssueOf(rule, cb, node)),
                                !.hist.reports = Append(@, IssueOf(rule, cb, node)),
                                !.hist.events =
                                    Append(@, [kind |-> "report", issue |-> IssueOf(rule, cb, node)])]
            ELSE called
        new == IF visitFn = "add" THEN AddedRule ELSE rule
    IN IF visitFn \in {"add", "readd"} /\ Len(st.ana.rules) < MaxRules
       THEN [reported EXCEPT !.ana = AddRule(@, new),
                             !.hist.regs = Append(@, new),
                             !.hist.events = Append(@, [kind |-> "add", rule |-> new])]
       ELSE reported

TypeOf(a, node) == a.ParseResult.Ast.typ[node]

\* Mutant: the loop reads the bucket of the Analyzer afresh at every turn, so
\* it sees the rules a callback has added while it runs.
RECURSIVE EnterLoopLive(_, _, _, _)
EnterLoopLive(st, rules, i, node) ==
    LET live == st.ana.entryRulesForNode[TypeOf(st.ana, node)] IN
    IF i > Len(live) THEN st
    ELSE LET rule == live[i]
             visitFn == OnEnter(rule)
         IN EnterLoopLive(IF visitFn # Nil THEN Invoke(st, rule, "OnEnter", visitFn, node) ELSE st,
                          live, i + 1, node)

RECURSIVE EnterLoop(_, _, _, _)
EnterLoop(st, rules, i, node) ==
    IF i > Len(rules) THEN st
    ELSE LET rule == rules[i]
             visitFn == OnEnter(rule)
         IN EnterLoop(IF visitFn # Nil THEN Invoke(st, rule, "OnEnter", visitFn, node) ELSE st,
                      rules, i + 1, node)

\* Mutant: the answer is false when a rule was registered for the node's type,
\* so WalkTree skips what lies below a node some rule has handled.
OnEnterNodePrune(st, node) ==
    [st |-> EnterLoop(st, st.ana.entryRulesForNode[TypeOf(st.ana, node)], 1, node),
     ret |-> st.ana.entryRulesForNode[TypeOf(st.ana, node)] = <<>>]

\* Mutant: every registered rule is tried, whatever the node's type.
OnEnterNodeAllRules(st, node) ==
    [st |-> EnterLoop(st, st.ana.rules, 1, node), ret |-> TRUE]

OnEnterNode(st, node) ==
    [st |-> EnterLoop(st, st.ana.entryRulesForNode[TypeOf(st.ana, node)], 1, node),
     ret |-> TRUE]

RECURSIVE LeaveLoop(_, _, _, _)
LeaveLoop(st, rules, i, node) ==
    IF i > Len(rules) THEN st
    ELSE LET rule == rules[i]
             visitFn == OnLeave(rule)
         IN LeaveLoop(IF visitFn # Nil THEN Invoke(st, rule, "OnLeave", visitFn, node) ELSE st,
                      rules, i + 1, node)

\* Mutant: the exit bucket is emptied once its rules have run.
OnLeaveNodeDrains(st, node) ==
    [LeaveLoop(st, st.ana.exitRulesForNode[TypeOf(st.ana, node)], 1, node)
         EXCEPT !.ana.exitRulesForNode[TypeOf(st.ana, node)] = <<>>]

\* Mutant: the rules of the exit bucket have their on-enter callback invoked.
OnLeaveNodeCallsEnter(st, node) ==
    EnterLoop(st, st.ana.exitRulesForNode[TypeOf(st.ana, node)], 1, node)

OnLeaveNode(st, node) ==
    LeaveLoop(st, st.ana.exitRulesForNode[TypeOf(st.ana, node)], 1, node)

-----------------------------------------------------------------------------
(* The host's session with one file: FromFile, then AddRule, Report and    *)
(* Analyze on the Analyzer it got, or one Analyze and then a second         *)
(* Analyzer for the same ParseResult and rules.  Instead of a session the   *)
(* host may call Grammar or Parse itself.                                   *)

PY == <<"a", ".", "p", "y">>
TSX == <<"a", ".", "t", "s", "x">>
UpperPY == <<"a", ".", "P", "Y">>
NoExt == <<"p", "y">>

FilePaths == {PY, TSX, UpperPY, NoExt}

NoHist == [events |-> <<>>, reports |-> <<>>, regs |-> <<>>]

Init ==
    /\ pc = "start"
    /\ pf = None
    /\ ff = None
    /\ ana = None
    /\ cur = 0
    /\ phase = "done"
    /\ returned = None
    /\ calls = 0
    /\ hist = NoHist
    /\ atStart = None
    /\ first = None
    /\ direct = None
    /\ path = <<>>
    /\ lang = NoLang

CallFromFile ==
    /\ pc = "start"
    /\ \E filePath \in FilePaths, env \in Envs, baseRules \in RuleLists :
         LET r == FromFile(filePath, baseRules, env) IN
         /\ pf' = [filePath |-> filePath, env |-> env, ret |-> ParseFile(filePath, env)]
         /\ ff' = [r EXCEPT !.ana = IF @ = None THEN Nil ELSE "Analyzer"]
         /\ ana' = r.ana
         /\ pc' = IF r.err # None THEN "failed" ELSE "idle"
         /\ hist' = [hist EXCEPT !.regs = IF r.err # None THEN <<>> ELSE baseRules]
    /\ UNCHANGED <<cur, phase, returned, calls, atStart, first, direct, path, lang>>

CallAddRule ==
    /\ pc = "idle"
    /\ first = None
    /\ calls < MaxCalls
    /\ Len(ana.rules) < MaxRules
    /\ \E rule \in RulePool :
         /\ ana' = AddRule(ana, rule)
         /\ hist' = [hist EXCEPT !.regs = Append(@, rule)]
    /\ calls' = calls + 1
    /\ UNCHANGED <<pc, pf, ff, cur, phase, returned, atStart, first, direct, path, lang>>

CallReport ==
    /\ pc = "idle"
    /\ first = None
    /\ calls < MaxCalls
    /\ ana' = Report(ana, HostIssue)
    /\ hist' = [hist EXCEPT !.reports = Append(@, HostIssue)]
    /\ calls' = calls + 1
    /\ UNCHANGED <<pc, pf, ff, cur, phase, returned, atStart, first, direct, path, lang>>

\* The grammar handles a caller can hold.
Grammars == {treeSitterPy, treeSitterTsx, treeSitterTs}

\* The host calls Parse itself, with a language tag and a grammar handle of
\* its own choosing, and nothing else.
CallParse ==
    /\ pc = "start"
    /\ \E filePath \in FilePaths, source \in Sources, language \in Languages,
          grammar \in Grammars, engineOk \in BOOLEAN :
         LET env == [readOk |-> TRUE, content |-> source, engineOk |-> engineOk] IN
         direct' = [fn |-> "Parse", filePath |-> filePath, source |-> source,
                    language |-> language, grammar |-> grammar, engineOk |-> engineOk,
                    ret |-> Parse(filePath, source, language, grammar, env)]
    /\ pc' = "done"
    /\ UNCHANGED <<pf, ff, ana, cur, phase, returned, calls, hist, atStart, first, path, lang>>

\* The host asks a Language value for its grammar, and nothing else.
CallGrammar ==
    /\ pc = "start"
    /\ \E l \in LanguageValues :
         direct' = [fn |-> "Grammar", language |-> l, grammar |-> Grammar(l)]
    /\ pc' = "done"
    /\ UNCHANGED <<pf, ff, ana, cur, phase, returned, calls, hist, atStart, first, path, lang>>

\* Analyze() calls WalkTree(ana.ParseResult.Ast, ana): the walk starts at the root.
CallAnalyze ==
    /\ pc = "idle"
    /\ calls < MaxCalls
    /\ first # None => calls = 0
    /\ pc' = "walk"
    /\ cur' = 1
    /\ phase' = "enter"
    /\ calls' = calls + 1
    /\ hist' = [hist EXCEPT !.events = <<>>]
    /\ atStart' = [rules |-> ana.rules, issues |-> Len(ana.issuesRaised)]
    /\ UNCHANGED <<pf, ff, ana, returned, first, direct, path, lang>>

Visit(cb, node) == [kind |-> "visit", cb |-> cb, node |-> node]

\* WalkTree enters cur: OnEnterNode, then down to the first child when it
\* answers true and there is one, else on to leaving cur.
WalkEnter ==
    /\ pc = "walk"
    /\ phase = "enter"
    /\ LET ast == ana.ParseResult.Ast
           r == OnEnterNode([ana |-> ana,
                             hist |-> [hist EXCEPT !.events = Append(@, Visit("OnEnter", cur))]],
                            cur)
           down == r.ret /\ ChildrenOf(ast, cur) # {}
       IN /\ ana' = r.st.ana
          /\ hist' = r.st.hist
          /\ cur' = IF down THEN Min(ChildrenOf(ast, cur)) ELSE cur
          /\ phase' = IF down THEN "enter" ELSE "leave"
    /\ UNCHANGED <<pc, pf, ff, returned, calls, atStart, first, direct, path, lang>>

\* WalkTree leaves cur: OnLeaveNode, then the next sibling is entered, or the
\* parent left, or the walk is over.
WalkLeave ==
    /\ pc = "walk"
    /\ phase = "leave"
    /\ LET ast == ana.ParseResult.Ast
           st == OnLeaveNode([ana |-> ana,
                              hist |-> [hist EXCEPT !.events = Append(@, Visit("OnLeave", cur))]],
                             cur)
           sibs == LaterSiblings(ast, cur)
       IN /\ ana' = st.ana
          /\ hist' = st.hist
          /\ cur' = IF sibs # {} THEN Min(sibs) ELSE ast.parent[cur]
          /\ phase' = IF sibs # {} THEN "enter"
                      ELSE IF ast.parent[cur] # 0 THEN "leave" ELSE "done"
    /\ UNCHANGED <<pc, pf, ff, returned, calls, atStart, first, direct, path, lang>>

\* Mutant: Analyze() returns without waiting for WalkTree, which is abandoned.
ReturnAnalyzeEarly ==
    /\ pc = "walk"
    /\ returned' = [issues |-> ana.issuesRaised]
    /\ pc' = "idle"
    /\ UNCHANGED <<pf, ff, ana, cur, phase, calls, hist, atStart, first, direct, path, lang>>

\* WalkTree is over: Analyze() returns ana.issuesRaised.
ReturnAnalyze ==
    /\ pc = "walk"
    /\ phase = "done"
    /\ returned' = [issues |-> ana.issuesRaised]
    /\ pc' = "idle"
    /\ UNCHANGED <<pf, ff, ana, cur, phase, calls, hist, atStart, first, direct, path, lang>>

\* The host repeats a run: after its one call of Analyze() on the Analyzer
\* FromFile gave it, it builds a second Analyzer with NewAnalyzer from the same
\* ParseResult and the same rules, on which it will call Analyze() once.
CallNewAnalyzer ==
    /\ pc = "idle"
    /\ first = None
    /\ calls = 1
    /\ returned # None
    /\ first' = [issues |-> returned.issues, rules |-> atStart.rules]
    /\ ana' = NewAnalyzer(ana.ParseResult, atStart.rules)
    /\ hist' = [NoHist EXCEPT !.regs = atStart.rules]
    /\ returned' = None
    /\ atStart' = None
    /\ calls' = 0
    /\ UNCHANGED <<pc, pf, ff, cur, phase, direct, path, lang>>

Next ==
    \/ CallFromFile
    \/ CallGrammar
    \/ CallParse
    \/ CallAddRule
    \/ CallReport
    \/ CallAnalyze
    \/ WalkEnter
    \/ WalkLeave
    \/ ReturnAnalyze
    \/ CallNewAnalyzer

Spec == Init /\ [][Next]_vars

\* Analyze() is one synchronous call: WalkTree and the callbacks run on the
\* caller's goroutine, which goes on with the walk as long as there is a step
\* of it to take.  The host's own calls are under no such obligation.
WalkStep == WalkEnter \/ WalkLeave \/ ReturnAnalyze

\* The sessions in which the host, given its Analyzer by FromFile with any
\* list of rules, calls Analyze on it, once or several times.
NextSync ==
    \/ CallFromFile
    \/ CallAnalyze
    \/ WalkEnter
    \/ WalkLeave
    \/ ReturnAnalyze

SpecFair == Init /\ [][NextSync]_vars /\ WF_vars(WalkStep)

-----------------------------------------------------------------------------
(* SpecLang: LanguageFromFilePath applied to every path of at most         *)
(* MaxPathLen characters.                                                  *)

PathChars == {".", "/", "p", "y", "j", "s", "t", "x", "P"}

Paths == UNION { [1..n -> PathChars] : n \in 0..MaxPathLen }

InitLang ==
    /\ pc = "start"
    /\ pf = None
    /\ ff = None
    /\ ana = None
    /\ cur = 0
    /\ phase = "done"
    /\ returned = None
    /\ calls = 0
    /\ hist = NoHist
    /\ atStart = None
    /\ first = None
    /\ direct = None
    /\ path \in Paths
    /\ lang = NoLang

CallLanguageFromFilePath ==
    /\ lang = NoLang
    /\ lang' = LanguageFromFilePath(path)
    /\ UNCHANGED <<pc, pf, ff, ana, cur, phase, returned, calls, hist, atStart, first, direct, path>>

NextLang == CallLanguageFromFilePath

SpecLang == InitLang /\ [][NextLang]_vars

-----------------------------------------------------------------------------
(* Properties.                                                             *)

Events == hist.events

CallIdx == { i \in DOMAIN Events : Events[i].kind = "call" }

Count(x, s) == Cardinality({ i \in DOMAIN s : s[i] = x })

IsPrefix(s, t) == Len(s) <= Len(t) /\ SubSeq(t, 1, Len(s)) = s

Callback(rule, cb) == IF cb = "OnEnter" THEN OnEnter(rule) ELSE OnLeave(rule)

\* How often the callback cb of rule was invoked for node in the current walk.
NumCalls(rule, cb, node) ==
    Cardinality({ i \in CallIdx :
                    Events[i].rule = rule /\ Events[i].cb = cb /\ Events[i].node = node })

\* WalkTree has left the root: Analyze() is about to return.
WalkOver == pc = "walk" /\ phase = "done"

NodesOfType(t) == { n \in NodesOf(ana.ParseResult.Ast) : TypeOf(ana, n) = t }

\* C1: no callback is ever invoked for a node whose type is not the rule's
\* declared type; and when the walk of one Analyze() is over, a rule that was
\* registered once before Analyze() was called (and not registered again
\* during the walk) has had its on-enter callback invoked exactly once for
\* each node of its type, and likewise its on-leave callback.
C1_OncePerMatchingNode ==
    /\ pc = "walk" =>
         \A i \in CallIdx : TypeOf(ana, Events[i].node) = NodeType(Events[i].rule)
    /\ WalkOver =>
         \A rule \in RulePool :
           (Count(rule, atStart.rules) = 1 /\ Count(rule, ana.rules) = 1) =>
             \A n \in NodesOf(ana.ParseResult.Ast), cb \in {"OnEnter", "OnLeave"} :
               NumCalls(rule, cb, n) =
                 IF Callback(rule, cb) # Nil /\ TypeOf(ana, n) = NodeType(rule) THEN 1 ELSE 0

\* A walk is over of a tree with two nodes of type X and one of type Y, with
\* R2 registered once: its on-enter callback ran twice.
C1_Witness ==
    /\ WalkOver
    /\ Count(R2, atStart.rules) = 1 /\ Count(R2, ana.rules) = 1
    /\ Cardinality(NodesOfType("X")) = 2
    /\ Cardinality(NodesOfType("Y")) = 1
    /\ Cardinality({ i \in CallIdx : Events[i].rule = R2 /\ Events[i].cb = "OnEnter" }) = 2

\* C2: the issue list of an Analyzer is at every moment the sequence of the
\* issues given to Report, in call order; a step never changes the list of an
\* Analyzer other than by extending it; and what Analyze() returns is that list.
C2_IssuesAreReportsInOrder ==
    /\ [](ana # None => ana.issuesRaised = hist.reports)
    /\ [][(ana # None /\ ana' # None /\ first' = first) => IsPrefix(ana.issuesRaised, ana'.issuesRaised)]_vars
    /\ [][(pc = "walk" /\ pc' = "idle") => returned'.issues = hist'.reports]_vars
    /\ []((returned # None /\ ana # None) => IsPrefix(returned.issues, ana.issuesRaised))

\* Analyze() has returned a list in which the same issue occurs twice, among
\* issues of rules of both node types.
C2_Witness ==
    /\ pc = "idle"
    /\ returned # None
    /\ \E i, j \in DOMAIN returned.issues : i < j /\ returned.issues[i] = returned.issues[j]
    /\ \E i, j \in DOMAIN returned.issues :
         /\ returned.issues[i].Message[1] = "R1"
         /\ returned.issues[j].Message[1] = "R2"

\* The issues reported during the current walk, in call order.
WalkReports ==
    LET IsReport(e) == e.kind = "report"
        reps == SelectSeq(Events, IsReport)
    IN [i \in DOMAIN reps |-> reps[i].issue]

\* C3: once Analyze() has returned, the list it returned holds exactly the
\* issues that were reported during the walk that call performed.
C3_ReturnsOnlyThisWalk ==
    (pc = "idle" /\ returned # None) => returned.issues = WalkReports

\* The events of a walk that happen at a node in a phase: the visit and the
\* callbacks invoked.
PhaseIdx == { i \in DOMAIN Events : Events[i].kind \in {"visit", "call"} }

\* The latest visit event of the walk (0 before the first).
LastVisit ==
    LET visits == { i \in DOMAIN Events : Events[i].kind = "visit" }
    IN IF visits = {} THEN 0 ELSE CHOOSE i \in visits : \A j \in visits : j <= i

\* Events i and j are in the order nesting asks for, should the node of j lie
\* below the node of i, or be the node of i; anc[n] is the ancestors of n.
Nested(anc, i, j) ==
    LET a == Events[i]
        d == Events[j]
        below == a.node \in anc[d.node]
    IN /\ (a.cb = "OnEnter" /\ below) => i < j
       /\ (a.cb = "OnLeave" /\ below) => j < i
       /\ (a.cb = "OnEnter" /\ d.cb = "OnLeave" /\ a.node = d.node) => i < j

\* C4: in the events of a walk, whatever happens on entering a node comes
\* before everything that happens at its descendants and before what happens
\* on leaving the node, and whatever happens on leaving a node comes after
\* everything that happens at its descendants.  (Events are only ever added
\* at the end, one visit with its callbacks per step: it is enough that in
\* every state of a walk the events of the latest visit are in order with all
\* events.)
C4_EnterLeaveNested ==
    pc = "walk" =>
      LET ast == ana.ParseResult.Ast
          anc == [n \in NodesOf(ast) |-> Ancestors(ast.parent, n)]
          all == PhaseIdx
          last == LastVisit
          latest == { k \in all : k >= last }
      IN \A j \in latest : \A i \in all : Nested(anc, i, j) /\ Nested(anc, j, i)

\* A walk is over in which R2's callbacks ran for a node of type X and for a
\* child of it of type X: enter parent, enter child, leave child, leave parent.
C4_Witness ==
    /\ WalkOver
    /\ \E n, m \in NodesOfType("X") :
         /\ ana.ParseResult.Ast.parent[m] = n
         /\ \E i, j, k, l \in CallIdx :
              /\ i < j /\ j < k /\ k < l
              /\ Events[i] = [kind |-> "call", rule |-> R2, cb |-> "OnEnter", node |-> n]
              /\ Events[j] = [kind |-> "call", rule |-> R2, cb |-> "OnEnter", node |-> m]
              /\ Events[k] = [kind |-> "call", rule |-> R2, cb |-> "OnLeave", node |-> m]
              /\ Events[l] = [kind |-> "call", rule |-> R2, cb |-> "OnLeave", node |-> n]

\* The registrations in force when event k of the walk happens: those made
\* before Analyze() was called, then those made by callbacks before k.
RegsAt(k) ==
    LET IsAdd(e) == e.kind = "add"
        adds == SelectSeq(SubSeq(Events, 1, k - 1), IsAdd)
    IN atStart.rules \o [i \in DOMAIN adds |-> adds[i].rule]

\* The callbacks invoked between visit event k and the next visit event.
RECURSIVE CallsFrom(_)
CallsFrom(k) ==
    IF k > Len(Events) \/ Events[k].kind = "visit" THEN <<>>
    ELSE IF Events[k].kind = "call" THEN <<Events[k]>> \o CallsFrom(k + 1)
    ELSE CallsFrom(k + 1)

\* C5: at every node visited in a phase, the callbacks invoked are those of
\* the rules registered for the node's type with a callback for that phase,
\* one call per registration, in registration order, each called with its
\* rule and the node; they all come before the next node is visited.  (Stated
\* of the latest visit of every state of a walk: every visit is the latest in
\* the state its step leads to.)
C5_RegistrationOrder ==
    pc = "walk" =>
      \A k \in {LastVisit} \ {0} :
        LET v == Events[k]
            Wanted(rule) == NodeType(rule) = TypeOf(ana, v.node) /\ Callback(rule, v.cb) # Nil
            regs == SelectSeq(RegsAt(k), Wanted)
        IN CallsFrom(k + 1) =
             [i \in DOMAIN regs |->
                [kind |-> "call", rule |-> regs[i], cb |-> v.cb, node |-> v.node]]

\* R3 was registered before R2, both for type X on enter: at a node of type X
\* R3's callback ran and R2's ran right after it.
C5_Witness ==
    /\ pc = "walk"
    /\ atStart.rules = <<R3, R2>>
    /\ \E i \in CallIdx :
         /\ i + 1 \in CallIdx
         /\ Events[i].rule = R3 /\ Events[i + 1].rule = R2
         /\ Events[i].cb = "OnEnter" /\ Events[i + 1].cb = "OnEnter"
         /\ Events[i].node = Events[i + 1].node

\* An Analyzer without rules, and AddRule called on every rule of a list in order.
EmptyAnalyzer(file) == NewAnalyzer(file, <<>>)

RECURSIVE AddEach(_, _)
AddEach(a, rules) ==
    IF rules = <<>> THEN a ELSE AddEach(AddRule(a, Head(rules)), Tail(rules))

\* C6: the rule list is the registrations in call order; the entry bucket of
\* a type is the registrations of that type that define an on-enter callback,
\* in call order, and the exit bucket those that define an on-leave callback;
\* and the Analyzer NewAnalyzer(file, rules) builds is the one AddRule builds
\* from an Analyzer without rules, called on each rule in order.
C6_Indexing ==
    ana # None =>
      /\ ana.rules = hist.regs
      /\ \A t \in NodeTypes :
           LET Entering(rule) == NodeType(rule) = t /\ OnEnter(rule) # Nil
               Leaving(rule) == NodeType(rule) = t /\ OnLeave(rule) # Nil
           IN /\ ana.entryRulesForNode[t] = SelectSeq(hist.regs, Entering)
              /\ ana.exitRulesForNode[t] = SelectSeq(hist.regs, Leaving)
      /\ (pc = "idle" /\ calls = 0) => ana = AddEach(EmptyAnalyzer(pf.ret.res), hist.regs)
      /\ (pc = "idle" /\ calls = 0 /\ hist.regs = <<>>) =>
           \A rules \in RuleLists :
             NewAnalyzer(pf.ret.res, rules) = AddEach(ana, rules)

\* R2 (both callbacks) then R1 (on-leave only) are registered: R2 is in the
\* entry and exit buckets of X, R1 in the exit bucket of Y only.
C6_Witness ==
    /\ ana # None
    /\ hist.regs = <<R2, R1>>
    /\ ana.entryRulesForNode["X"] = <<R2>>
    /\ ana.exitRulesForNode["X"] = <<R2>>
    /\ ana.entryRulesForNode["Y"] = <<>>
    /\ ana.exitRulesForNode["Y"] = <<R1>>
    /\ calls = 1

\* ParseFile has been called (pf records the call).
Called == pf # None

\* C7: ParseFile answers "unsupported file type" for a path whose extension
\* has no grammar, having called neither os.ReadFile nor the engine, whether
\* or not the file can be read; for a path with a grammar whose file cannot
\* be read it answers the read error, having called os.ReadFile only; in both
\* cases without a ParseResult.  Otherwise it answers what Parse answers for
\* the bytes read, the path's language and its grammar.
C7_ParseFileOrder ==
    Called =>
      LET l == LanguageFromFilePath(pf.filePath)
          r == pf.ret
      IN /\ (pf.filePath \in {UpperPY, NoExt}) => Grammar(l) = Nil
         /\ (pf.filePath \in {PY, TSX}) => Grammar(l) # Nil
         /\ Grammar(l) = Nil =>
              /\ r.res = None
              /\ r.err = [kind |-> "unsupported file type", path |-> pf.filePath]
              /\ r.ext = <<>>
         /\ (Grammar(l) # Nil /\ ~pf.env.readOk) =>
              /\ r.res = None
              /\ r.err = [kind |-> "read error", path |-> pf.filePath]
              /\ r.ext = <<"ReadFile">>
         /\ (Grammar(l) # Nil /\ pf.env.readOk) =>
              LET p == Parse(pf.filePath, pf.env.content, l, Grammar(l), pf.env)
              IN /\ r.res = p.res
                 /\ r.err = p.err
                 /\ r.ext = <<"ReadFile">> \o p.ext

\* ParseFile was called on a path without a grammar whose file cannot be read.
C7_Witness ==
    /\ Called
    /\ pf.filePath = UpperPY
    /\ ~pf.env.readOk
    /\ pf.ret.err.kind = "unsupported file type"

\* C8: when the engine was called and failed, there is no ParseResult, the
\* error is "failed to parse" with the file path, and MakeScopeTree was not
\* called; when it was called and succeeded, there is a ParseResult (holding
\* the tree the engine built) and no error.
C8_ParseFailure ==
    (Called /\ "ParseCtx" \in Range(pf.ret.ext)) =>
      IF ~pf.env.engineOk
      THEN /\ pf.ret.res = None
           /\ pf.ret.err = [kind |-> "failed to parse", path |-> pf.filePath]
           /\ "MakeScopeTree" \notin Range(pf.ret.ext)
      ELSE /\ pf.ret.res # None
           /\ pf.ret.res.Ast = pf.env.content
           /\ pf.ret.err = None

\* The engine was called on the bytes of a readable .py file and failed.
C8_Witness ==
    /\ Called
    /\ pf.filePath = PY
    /\ pf.env.readOk /\ ~pf.env.engineOk
    /\ pf.ret.ext = <<"ReadFile", "ParseCtx">>

\* C9: ParseFile and FromFile each return either a result or an error, never
\* both and never neither; FromFile returns an Analyzer exactly when ParseFile
\* returned no error, and else returns ParseFile's error; an Analyzer exists
\* exactly then; and no collaborator is called a second time.
C9_ErrorsTerminal ==
    Called =>
      /\ (pf.ret.res = None) # (pf.ret.err = None)
      /\ (ff.ana = Nil) # (ff.err = None)
      /\ (ff.ana # Nil) = (pf.ret.err = None)
      /\ ff.err = pf.ret.err
      /\ (ana # None) = (ff.ana # Nil)
      /\ (pc = "failed") = (ff.err # None)
      /\ \A x \in Range(pf.ret.ext) : Count(x, pf.ret.ext) = 1

\* FromFile failed with the engine's error: no Analyzer.
C9_Witness ==
    /\ pc = "failed"
    /\ ff.err = [kind |-> "failed to parse", path |-> TSX]
    /\ ff.ana = Nil
    /\ ana = None

EndsWith(p, suffix) ==
    Len(p) >= Len(suffix) /\ SubSeq(p, Len(p) - Len(suffix) + 1, Len(p)) = suffix

\* C10: the language of a path is Python when the path ends in ".py",
\* JavaScript when it ends in ".js" or ".jsx", TypeScript when it ends in
\* ".ts", TypeScript+JSX when it ends in ".tsx", and Unknown for every other
\* path; it is decided by the path's extension alone.
C10_LanguageOfExtension ==
    lang # NoLang =>
      /\ lang = (CASE EndsWith(path, <<".", "p", "y">>) -> LangPy
                   [] EndsWith(path, <<".", "j", "s">>) -> LangJs
                   [] EndsWith(path, <<".", "j", "s", "x">>) -> LangJs
                   [] EndsWith(path, <<".", "t", "s">>) -> LangTs
                   [] EndsWith(path, <<".", "t", "s", "x">>) -> LangTsx
                   [] OTHER -> LangUnknown)
      /\ lang = LanguageFromFilePath(Ext(path))

\* The language of a path ending in ".jsx", with a dot earlier in it, was
\* resolved to JavaScript.
C10_Witness ==
    /\ lang = LangJs
    /\ path = <<".", ".", "j", "s", "x">>

-----------------------------------------------------------------------------
\* C11: Grammar() gives a grammar handle for Python, JavaScript, TypeScript and
\* TypeScript+JSX and none for Unknown or for a value outside the enumeration;
\* the JavaScript handle is the TypeScript+JSX one, and the TypeScript handle
\* is a different one.
AskedGrammar == direct # None /\ direct.fn = "Grammar"

C11_GrammarOfLanguage ==
    AskedGrammar =>
        LET l == direct.language
            g == direct.grammar
        IN /\ (g = Nil) = (l = LangUnknown \/ l \notin Languages)
           /\ l = LangTsx => g # Nil /\ g = treeSitterTsx
           /\ l = LangJs => g = Grammar(LangTsx)
           /\ l = LangTs => g # Grammar(LangTsx) /\ g # Grammar(LangJs)
           /\ l = LangPy => g \notin {Grammar(LangJs), Grammar(LangTs), Grammar(LangTsx)}

C11_Witness == AskedGrammar /\ direct.language = LangTs /\ direct.grammar = treeSitterTs

-----------------------------------------------------------------------------
\* C12: two Analyzers built with NewAnalyzer from the same ParseResult and the
\* same list of rules, on each of which Analyze() is called once and nothing
\* else, return the same list of issues.
SecondReturned == first # None /\ pc = "idle" /\ returned # None

C12_Deterministic ==
    SecondReturned =>
        /\ returned.issues = first.issues
        /\ atStart.rules = first.rules
        /\ ana.ParseResult = pf.ret.res

\* Both runs returned two issues or more, and a callback added a rule in each.
C12_Witness ==
    /\ SecondReturned
    /\ Len(first.issues) >= 2
    /\ returned.issues = first.issues
    /\ R3 \in Range(first.rules)
    /\ Len(ana.rules) > Len(first.rules)

-----------------------------------------------------------------------------
\* C13: OnEnterNode answers true for every node, whatever rules are registered
\* and whatever their callbacks do; so no subtree is skipped: when the walk is
\* over every node of the tree has been entered, and every node below a node
\* at which callbacks ran has been entered after it.
EnteredNodes == { Events[i].node : i \in { j \in DOMAIN Events :
                      Events[j].kind = "visit" /\ Events[j].cb = "OnEnter" } }

C13_NeverPrunes ==
    /\ (pc = "walk" /\ phase = "enter") =>
           OnEnterNode([ana |-> ana, hist |-> hist], cur).ret
    /\ WalkOver => EnteredNodes = NodesOf(ana.ParseResult.Ast)

\* The walk is over; on-enter callbacks ran at the root, one of them adding a
\* rule, and a grandchild of the root was entered.
C13_Witness ==
    /\ WalkOver
    /\ \E i \in CallIdx : Events[i].node = 1 /\ Events[i].cb = "OnEnter"
                           /\ OnEnter(Events[i].rule) = "add"
    /\ \E n \in EnteredNodes :
         LET ast == ana.ParseResult.Ast IN
         ast.parent[n] # 0 /\ ast.parent[ast.parent[n]] = 1

-----------------------------------------------------------------------------
\* C14: a rule with neither callback is inert.  AddRule records it in the rule
\* list and in no bucket and leaves everything else of the Analyzer as it was;
\* no callback of it is ever invoked; and registering it changes no other
\* rule's invocations: the dispatch for the node WalkTree is at invokes the
\* same callbacks whether or not such a rule is registered first.
Inert(rule) == OnEnter(rule) = Nil /\ OnLeave(rule) = Nil

CallsOf(events) ==
    LET IsCall(e) == e.kind = "call" IN SelectSeq(events, IsCall)

C14_InertRule ==
    ana # None =>
        \A rule \in { r \in RulePool : Inert(r) } :
            LET with == AddRule(ana, rule)
                st == [ana |-> ana, hist |-> [hist EXCEPT !.events = <<>>]]
                stWith == [st EXCEPT !.ana = with]
            IN /\ with = [ana EXCEPT !.rules = Append(@, rule)]
               /\ Count(rule, ana.rules) = Count(rule, hist.regs)
               /\ \A t \in NodeTypes :
                     /\ rule \notin Range(ana.entryRulesForNode[t])
                     /\ rule \notin Range(ana.exitRulesForNode[t])
               /\ \A i \in CallIdx : Events[i].rule # rule
               /\ (pc = "walk" /\ phase = "enter") =>
                     CallsOf(OnEnterNode(stWith, cur).st.hist.events)
                         = CallsOf(OnEnterNode(st, cur).st.hist.events)
               /\ (pc = "walk" /\ phase = "leave") =>
                     CallsOf(OnLeaveNode(stWith, cur).hist.events)
                         = CallsOf(OnLeaveNode(st, cur).hist.events)

\* A walk is over in which a rule without callbacks was registered for type Y,
\* the tree has a node of type Y, and a callback of another rule was invoked.
C14_Witness ==
    /\ WalkOver
    /\ R4 \in Range(ana.rules)
    /\ NodesOfType("Y") # {}
    /\ \E i \in CallIdx : Events[i].node \in NodesOfType("Y")

-----------------------------------------------------------------------------
\* C15: Analyze() is synchronous and complete.  Every call of it returns; at
\* the moment it returns every node of the tree has been entered exactly once
\* and left exactly once; and nothing of the walk is left to happen once it
\* has returned: no callback is invoked and no node visited until Analyze()
\* is called again.
VisitsOf(events, cb, node) ==
    Cardinality({ i \in DOMAIN events :
                    events[i].kind = "visit" /\ events[i].cb = cb /\ events[i].node = node })

C15_AnalyzeCompletes ==
    /\ (pc = "walk") ~> (pc = "idle" /\ returned # None)
    /\ [][(pc = "walk" /\ pc' = "idle") =>
             \A n \in NodesOf(ana.ParseResult.Ast) :
                 /\ VisitsOf(hist'.events, "OnEnter", n) = 1
                 /\ VisitsOf(hist'.events, "OnLeave", n) = 1]_vars
    /\ []((pc = "idle" /\ returned # None) => ~ENABLED WalkStep)
    /\ [][pc' = "idle" => hist'.events = hist.events]_vars

\* Analyze() has returned from the walk of a tree of two nodes or more in
\* which callbacks were invoked.
C15_Witness ==
    /\ pc = "idle"
    /\ returned # None
    /\ Cardinality(NodesOf(ana.ParseResult.Ast)) >= 2
    /\ CallIdx # {}
    /\ \A n \in NodesOf(ana.ParseResult.Ast) : VisitsOf(Events, "OnLeave", n) = 1

-----------------------------------------------------------------------------
\* C16: what each operation leaves alone.  While Analyze() runs with rules
\* whose callbacks only call Report, nothing of the Analyzer changes but the
\* issue list: rule list, both indices, Language and ParseResult stay as they
\* were.  AddRule leaves the issue list as it was; Report leaves the rule list
\* and both indices as they were; neither touches Language or ParseResult.
ReportOnly ==
    \A r \in Range(ana.rules) :
        OnEnter(r) \in {Nil, "report"} /\ OnLeave(r) \in {Nil, "report"}

SameButIssues(a, b) == b = [a EXCEPT !.issuesRaised = b.issuesRaised]

SameButRegistry(a, b) ==
    b = [a EXCEPT !.rules = b.rules,
                  !.entryRulesForNode = b.entryRulesForNode,
                  !.exitRulesForNode = b.exitRulesForNode]

C16_Frame ==
    /\ [][(pc = "walk" /\ ReportOnly) => SameButIssues(ana, ana')]_vars
    /\ [][(pc = "idle" /\ pc' = "idle" /\ first' = first /\ ana'.rules # ana.rules) =>
             SameButRegistry(ana, ana')]_vars
    /\ [][(pc = "idle" /\ pc' = "idle" /\ first' = first
              /\ ana'.issuesRaised # ana.issuesRaised) => SameButIssues(ana, ana')]_vars
    /\ [](ana # None =>
             /\ \A rule \in RulePool : SameButRegistry(ana, AddRule(ana, rule))
             /\ SameButIssues(ana, Report(ana, HostIssue)))

\* A walk with reporting callbacks only is over, on an Analyzer on which the
\* host had called Report and which holds issues raised by callbacks of both
\* phases.
C16_Witness ==
    /\ WalkOver
    /\ ReportOnly
    /\ HostIssue \in Range(ana.issuesRaised)
    /\ \E i, j \in CallIdx : Events[i].cb = "OnEnter" /\ Events[j].cb = "OnLeave"

-----------------------------------------------------------------------------
\* C17: a rule that a callback registers with AddRule while the dispatch of a
\* phase runs at a node of the rule's type is not invoked by that dispatch:
\* the dispatch goes over the bucket as it was when it started.  The rule is
\* invoked at every node of the type visited later in that phase, after the
\* rules registered before it; and a rule registered during the enter
\* dispatch of a node, with an on-leave callback, is invoked when that node
\* is left.  This holds for the enter phase and for the exit phase alike.
AddIdx == { i \in DOMAIN Events : Events[i].kind = "add" }

\* The visit event whose dispatch event i belongs to.
VisitBefore(i) ==
    CHOOSE k \in 1..i : Events[k].kind = "visit"
                          /\ \A j \in (k + 1)..i : Events[j].kind # "visit"

\* The rules of the callbacks invoked by the dispatch of visit event k.
RulesCalledAt(k) ==
    LET cs == CallsFrom(k + 1) IN [i \in DOMAIN cs |-> cs[i].rule]

\* The registrations among regs that the dispatch of phase cb at a node of
\* type t invokes.
Matching(regs, t, cb) ==
    LET Hit(rule) == NodeType(rule) = t /\ Callback(rule, cb) # Nil
    IN SelectSeq(regs, Hit)

C17_AddRuleDuringDispatch ==
    WalkOver =>
        \A a \in AddIdx :
            LET new == Events[a].rule
                k == VisitBefore(a)
                cb == Events[k].cb
                n == Events[k].node
                t == TypeOf(ana, n)
                before == Matching(RegsAt(a), t, cb)
            IN NodeType(new) = t =>
                 /\ RulesCalledAt(k) = Matching(RegsAt(k), t, cb)
                 /\ Count(new, RulesCalledAt(k)) = Count(new, RegsAt(k))
                 /\ Callback(new, cb) # Nil =>
                       \A k2 \in DOMAIN Events :
                           (/\ k2 > a
                            /\ Events[k2].kind = "visit"
                            /\ Events[k2].cb = cb
                            /\ TypeOf(ana, Events[k2].node) = t) =>
                               /\ IsPrefix(before \o <<new>>, RulesCalledAt(k2))
                               /\ Count(new, RulesCalledAt(k2)) > Count(new, RegsAt(k))
                 /\ (cb = "OnEnter" /\ OnLeave(new) # Nil) =>
                       \E k3 \in DOMAIN Events :
                           /\ k3 > a
                           /\ Events[k3] = Visit("OnLeave", n)
                           /\ IsPrefix(Matching(RegsAt(a), t, "OnLeave") \o <<new>>,
                                       RulesCalledAt(k3))

\* A walk is over in which an on-enter callback at a node of type X
\* registered a rule for X with both callbacks, and a second node of type X
\* was entered after that.
C17_Witness ==
    /\ WalkOver
    /\ \E a \in AddIdx :
         /\ Events[VisitBefore(a)].cb = "OnEnter"
         /\ NodeType(Events[a].rule) = TypeOf(ana, Events[VisitBefore(a)].node)
         /\ OnEnter(Events[a].rule) # Nil /\ OnLeave(Events[a].rule) # Nil
         /\ \E k2 \in DOMAIN Events :
              /\ k2 > a
              /\ Events[k2].kind = "visit"
              /\ Events[k2].cb = "OnEnter"
              /\ TypeOf(ana, Events[k2].node) = NodeType(Events[a].rule)

\* The same in the exit phase: an on-leave callback registered a rule for the
\* type of the node being left, and a node of that type was left later.
C17_WitnessExit ==
    /\ WalkOver
    /\ \E a \in AddIdx :
         /\ Events[VisitBefore(a)].cb = "OnLeave"
         /\ NodeType(Events[a].rule) = TypeOf(ana, Events[VisitBefore(a)].node)
         /\ OnLeave(Events[a].rule) # Nil
         /\ \E k2 \in DOMAIN Events :
              /\ k2 > a
              /\ Events[k2].kind = "visit"
              /\ Events[k2].cb = "OnLeave"
              /\ TypeOf(ana, Events[k2].node) = NodeType(Events[a].rule)

-----------------------------------------------------------------------------
\* C18: the registry of an Analyzer.  The rule list has one entry for each
\* registration (by NewAnalyzer, by the host's AddRule, by a callback's), in
\* call order; the entry bucket of a type is the subsequence of the rule list
\* of the rules of that type with an on-enter callback, the exit bucket
\* likewise with on-leave; a step only ever appends to the rule list and to a
\* bucket; and nothing is deduplicated: each rule is in the list and in its
\* buckets as often as it was registered, and a rule registered n times has
\* its callback invoked n times at each node of its type.
C18_Registry ==
    /\ [](ana # None =>
             /\ Len(ana.rules) = Len(hist.regs)
             /\ \A t \in NodeTypes :
                   /\ ana.entryRulesForNode[t] = Matching(ana.rules, t, "OnEnter")
                   /\ ana.exitRulesForNode[t] = Matching(ana.rules, t, "OnLeave")
             /\ \A rule \in RulePool :
                   /\ Count(rule, ana.rules) = Count(rule, hist.regs)
                   /\ OnEnter(rule) # Nil =>
                         Count(rule, ana.entryRulesForNode[NodeType(rule)])
                             = Count(rule, hist.regs)
                   /\ OnLeave(rule) # Nil =>
                         Count(rule, ana.exitRulesForNode[NodeType(rule)])
                             = Count(rule, hist.regs))
    /\ [][(ana # None /\ ana' # None /\ first' = first) =>
             /\ IsPrefix(ana.rules, ana'.rules)
             /\ \A t \in NodeTypes :
                   /\ IsPrefix(ana.entryRulesForNode[t], ana'.entryRulesForNode[t])
                   /\ IsPrefix(ana.exitRulesForNode[t], ana'.exitRulesForNode[t])]_vars
    /\ [](WalkOver =>
             \A rule \in RulePool, cb \in {"OnEnter", "OnLeave"} :
                 (Callback(rule, cb) # Nil
                    /\ Count(rule, ana.rules) = Count(rule, atStart.rules)) =>
                     \A n \in NodesOfType(NodeType(rule)) :
                         NumCalls(rule, cb, n) = Count(rule, atStart.rules))

\* A walk is over on an Analyzer constructed with the same rule twice: both
\* buckets of its type hold it twice and its on-enter callback was invoked
\* twice at a node.
C18_Witness ==
    /\ WalkOver
    /\ atStart.rules = <<R2, R2>>
    /\ ana.entryRulesForNode["X"] = <<R2, R2>>
    /\ ana.exitRulesForNode["X"] = <<R2, R2>>
    /\ \E n \in NodesOfType("X") : NumCalls(R2, "OnEnter", n) = 2

-----------------------------------------------------------------------------
\* C19: a ParseResult that ParseFile(path) returns has FilePath = path, Source
\* = the bytes read from the path, Language = LanguageFromFilePath(path),
\* which is not Unknown, and as grammar handle the Grammar() of that Language;
\* the Analyzer built from a ParseResult has the Language of the ParseResult.
\* Parse itself stores the language and the grammar it is given, whether or
\* not they correspond to each other or to the path.
ParsedDirectly == direct # None /\ direct.fn = "Parse"

C19_ParseResultConsistent ==
    /\ (pf # None /\ pf.ret.res # None) =>
          LET res == pf.ret.res IN
          /\ res.FilePath = pf.filePath
          /\ res.Source = pf.env.content
          /\ res.Language = LanguageFromFilePath(pf.filePath)
          /\ res.Language # LangUnknown
          /\ res.TsLanguage = Grammar(res.Language)
          /\ res.TsLanguage # Nil
    /\ ana # None =>
          /\ ana.ParseResult = pf.ret.res
          /\ ana.Language = ana.ParseResult.Language
    /\ ParsedDirectly =>
          /\ (direct.ret.res # None) = direct.engineOk
          /\ direct.ret.res # None =>
                /\ direct.ret.res.Language = direct.language
                /\ direct.ret.res.TsLanguage = direct.grammar
                /\ direct.ret.res.FilePath = direct.filePath
                /\ direct.ret.res.Source = direct.source
                /\ NewAnalyzer(direct.ret.res, <<>>).Language = direct.language

\* FromFile has built an Analyzer for a .tsx path: the ParseResult and the
\* Analyzer carry TypeScript+JSX and its grammar.
C19_Witness ==
    /\ ana # None
    /\ pf.filePath = TSX
    /\ pf.ret.res.Language = LangTsx
    /\ pf.ret.res.TsLanguage = treeSitterTsx
    /\ ana.Language = LangTsx
    /\ Len(ana.rules) > 0

\* Parse was called with the Python tag, the TypeScript grammar and a .tsx
\* path, and returned a ParseResult holding the three.
C19_WitnessMismatch ==
    /\ ParsedDirectly
    /\ direct.filePath = TSX
    /\ direct.language = LangPy
    /\ direct.grammar = treeSitterTs
    /\ direct.ret.res # None
    /\ direct.ret.res.Language = LangPy
    /\ direct.ret.res.TsLanguage = treeSitterTs

====
